---- MODULE Spec2Model ----
(***************************************************************************)
(* Model of the HOD population kernels gen_cent and gen_sats of            *)
(* AbacusHOD/GRAND_HOD/gen_gal_catalog_rockstar_modified_subsampled_numba  *)
(* (the two-pass classify / prefix-sum / fill partition engine).           *)
(*                                                                         *)
(* Conventions.  Arrays are functions over 0..n-1, as in the source.       *)
(* Probabilities, thresholds and draws are exact numbers in units of one   *)
(* tenth (4 stands for 0.4).  The values of the closed-form occupation     *)
(* functions (erfc, powers) are taken as input data of an object: TLA+     *)
(* has no reals, and every claim settled here is about how those values    *)
(* are combined and compared, not about erfc itself.                       *)
(*                                                                         *)
(* Specifications:                                                         *)
(*   Spec       one call of gen_cent or gen_sats, every interleaving of    *)
(*              the prange partitions                                      *)
(*   SpecMarker the classify decision of one object as a pure function of  *)
(*              its draw, its three occupation values and the want flags   *)
(***************************************************************************)
EXTENDS Integers, Sequences, FiniteSets, TLC

\* ------------------------------------------------------------------ bounds
MaxH == 3          \* largest input length H (halos or particles)
MaxThreads == 3    \* largest Nthread = numba.get_num_threads()
MaxP == 5          \* SpecMarker: largest occupation value, in tenths

\* ------------------------------------------------------- program constants
Tracers == 1..3                       \* keep codes: 1 LRG, 2 ELG, 3 QSO
Fields == {"x", "y", "z", "vx", "vy", "vz", "mass", "id"}
Uninit == -999                        \* content of an np.empty cell never written

VARIABLES
    pop,       \* "cent": gen_cent runs; "sats": gen_sats runs
    H,         \* len(mass) / len(hmass)
    Nthread,   \* numba.get_num_threads()
    want,      \* [L, E, Q]: want_LRG, want_ELG, want_QSO
    rsd,       \* the rsd argument
    randoms,   \* randoms[i], i \in 0..H-1, in tenths
    phase,     \* "classify", "fill", "done" (Spec); "marker", "marked" (SpecMarker)
    ci,        \* ci[tid]: loop index i of partition tid in the running pass
    Nout,      \* Nout[tid][k] = Nout[tid, k-1, 0]
    keep,      \* keep[i]; Uninit until written (np.empty)
    gstart,    \* gstart[t][k], t \in 0..Nthread
    j,         \* j[tid][k]: the local cursors j1, j2, j3 of partition tid
    buf,       \* buf[k][f][slot] = [val, nw, by, src]
    oob,       \* writes that fell outside the buffer written: <<tid, k, f, slot>>
    mk,        \* the inputs and the result of a kernel applied alone (SpecMarker,
               \* SpecOcc, SpecWrap, SpecGalaxy)
    orch,      \* SpecOrch: the state of one gen_gal_cat call
    ld         \* SpecLoad: the state of one run of load_sims.py

vars == <<pop, H, Nthread, want, rsd, randoms, phase, ci, Nout, keep, gstart, j,
          buf, oob, mk, orch, ld>>

\* The variables of one gen_cent / gen_sats call.
engineVars == <<pop, H, Nthread, want, rsd, randoms, ci, Nout, keep, gstart, j, buf, oob>>

\* The value of orch and ld where gen_gal_cat and load_sims.py do not run.
Idle == [pc |-> "idle"]

\* ------------------------------------------------------------- input data
\* The draws an object can have: 0 is the smallest value of [0,1).
Draws == {0, 5, 8, 9}

\* Values returned by the occupation functions for the model's objects, in
\* tenths: n_cen_LRG / n_sat_LRG_modified, N_cen_ELG_v1 / N_sat_generic,
\* N_cen_QSO / N_sat_generic.
occ == [L |-> 4, E |-> 3, Q |-> 1]

\* LRG_HOD as the caller passes it (values are small integers).
LRG_HOD == [logM_cut |-> 1, logM1 |-> 2, sigma |-> 3, alpha |-> 4, kappa |-> 5,
            alpha_c |-> 2, alpha_s |-> 3, s |-> 0, s_v |-> 0, s_p |-> 0, s_r |-> 0,
            Acent |-> 0, Asat |-> 0, Bcent |-> 0, Bsat |-> 0, ic |-> 1]

lbox == 32              \* params['Lbox'] of the test simulation Mini_N64_L32
inv_velz2kms == 1       \* 1/params['velz2kms']

\* hpos / ppos, hvel / pvel, parent-halo velocity, mass, id, multiplier and
\* velocity deviate of object i: distinct per object and per axis.
pos(i, a) == ((7 * i + 5 * a) % lbox) - 16
vel(i, a) == 3 * i + a - 2
hvel(i, a) == i - a
mass(i) == 100 + i
\* An int64 id is written in two limbs, hi * 2^30 + lo with 0 <= lo < 2^30; the
\* id of object 1 is above 2^53.
IdBase == 2 ^ 30
ids(i) == [hi |-> IF i = 1 THEN 2 ^ 23 ELSE 0, lo |-> 1000 + i]
multis(i) == 1
weights(i) == 1
vdev(i) == i - 1

\* ----------------------------------------------------------- partitioning
\* np.rint of the exact quotient num/den (den > 0, num >= 0): round half to even.
rint(num, den) ==
    LET q == num \div den
        r == num % den
    IN  IF 2 * r < den THEN q
        ELSE IF 2 * r > den THEN q + 1
        ELSE IF q % 2 = 0 THEN q ELSE q + 1

\* A mutant of HStart: the upper end of linspace is H - 1 instead of H.
HStartShort(Hn, T) == [t \in 0..T |-> rint(t * (IF Hn > 0 THEN Hn - 1 ELSE 0), T)]

\* hstart = np.rint(np.linspace(0, H, Nthread + 1))
HStart(Hn, T) == [t \in 0..T |-> rint(t * Hn, T)]

hstart == HStart(H, Nthread)

Tids == 0..(Nthread - 1)

\* ----------------------------------------------------------- classify pass
\* A float that is not a number: the value of (negative) ** (fractional alpha)
\* in n_sat_LRG_modified and of every sum and product it enters.
NaN == -99999

fadd(a, b) == IF a = NaN \/ b = NaN THEN NaN ELSE a + b

fmul(a, b) == IF a = NaN \/ b = NaN THEN NaN ELSE a * b

\* a <= b in a kernel compiled with fastmath = True: the comparison carries the
\* no-NaN flag, so its value on a NaN is whatever the build produces (nanle).
fle(a, b, nanle) == IF a = NaN \/ b = NaN THEN nanle ELSE a <= b

\* The three cumulative markers of gen_cent for an object with occupation
\* values o, multiplicity wt and incompleteness ic.
MarkersCentF(in) ==
    LET LRG_marker == IF in.w.L THEN fmul(fmul(in.o.L, in.ic), in.wt) ELSE 0
        ELG_marker == IF in.w.E THEN fadd(LRG_marker, fmul(in.o.E, in.wt)) ELSE LRG_marker
        QSO_marker == IF in.w.Q THEN fadd(ELG_marker, in.o.Q) ELSE ELG_marker
    IN  <<LRG_marker, ELG_marker, QSO_marker>>

\* 1 + s * ranks[i] + s_v * ranksv[i] + s_p * ranksp[i] + s_r * ranksr[i]
Decorator(d, rk) == 1 + d.s * rk.r + d.s_v * rk.v + d.s_p * rk.p + d.s_r * rk.rr

\* The LRG expected satellite count exp_sat of gen_sats.
ExpSat(in) ==
    LET base_p == fmul(fmul(in.o.L, in.wt), in.ic)
    IN  IF in.enable_ranks THEN fmul(base_p, Decorator(in.dec, in.ranks)) ELSE base_p

\* The three cumulative markers of gen_sats for a particle with occupation
\* values o, weight wt, incompleteness ic and ranks.
MarkersSatsF(in) ==
    LET LRG_marker == IF in.w.L THEN ExpSat(in) ELSE 0
        ELG_marker == IF in.w.E THEN fadd(LRG_marker, fmul(in.o.E, in.wt)) ELSE LRG_marker
        QSO_marker == IF in.w.Q THEN fadd(ELG_marker, fmul(in.o.Q, in.wt)) ELSE ELG_marker
    IN  <<LRG_marker, ELG_marker, QSO_marker>>

NoRanks == [s |-> 0, s_v |-> 0, s_p |-> 0, s_r |-> 0]

MeanRank == [r |-> 0, v |-> 0, p |-> 0, rr |-> 0]

\* The three cumulative markers of gen_cent for object i.
MarkersCent(i, w, o, ic) == MarkersCentF([w |-> w, o |-> o, ic |-> ic, wt |-> multis(i)])

\* The three cumulative markers of gen_sats for object i (enable_ranks false).
MarkersSats(i, w, o, ic) ==
    MarkersSatsF([w |-> w, o |-> o, ic |-> ic, wt |-> weights(i),
                  enable_ranks |-> FALSE, dec |-> NoRanks, ranks |-> MeanRank])

Markers(p, i, w, o, ic) ==
    IF p = "cent" THEN MarkersCent(i, w, o, ic) ELSE MarkersSats(i, w, o, ic)

\* A mutant of Decide: three independent ifs instead of the if/elif chain.
DecideIndependent(r, m) ==
    LET hit == {k \in Tracers : r <= m[k]}
    IN  [inc |-> hit,
         keep |-> IF hit = {} THEN 0 ELSE CHOOSE k \in hit : \A l \in hit : l <= k]

\* A mutant of Decide: the chain tests the ELG marker first.
DecideELGFirst(r, m) ==
    IF r <= m[2] THEN [inc |-> {2}, keep |-> 2]
    ELSE IF r <= m[1] THEN [inc |-> {1}, keep |-> 1]
    ELSE IF r <= m[3] THEN [inc |-> {3}, keep |-> 3]
    ELSE [inc |-> {}, keep |-> 0]

\* The if/elif chain on one draw r: the counters it increments and keep[i].
DecideF(r, m, nanle) ==
    IF fle(r, m[1], nanle) THEN [inc |-> {1}, keep |-> 1]
    ELSE IF fle(r, m[2], nanle) THEN [inc |-> {2}, keep |-> 2]
    ELSE IF fle(r, m[3], nanle) THEN [inc |-> {3}, keep |-> 3]
    ELSE [inc |-> {}, keep |-> 0]

\* The chain on markers that are numbers.
Decide(r, m) == DecideF(r, m, FALSE)

\* One iteration of the first prange loop, by partition tid.
ClassifyStep(tid) ==
    /\ phase = "classify"
    /\ ci[tid] < hstart[tid + 1]
    /\ LET i == ci[tid]
           d == Decide(randoms[i], Markers(pop, i, want, occ, LRG_HOD.ic))
       IN  /\ keep' = [keep EXCEPT ![i] = d.keep]
           /\ Nout' = [Nout EXCEPT ![tid] =
                          [k \in Tracers |-> IF k \in d.inc THEN @[k] + 1 ELSE @[k]]]
           /\ ci' = [ci EXCEPT ![tid] = i + 1]
    /\ UNCHANGED <<pop, H, Nthread, want, rsd, randoms, phase, gstart, j, buf, oob, mk, orch, ld>>

\* ------------------------------------------------- offsets and allocation
RECURSIVE SumUpTo(_, _, _)
\* Nout[0][k] + ... + Nout[t-1][k]
SumUpTo(N, k, t) == IF t = 0 THEN 0 ELSE SumUpTo(N, k, t - 1) + N[t - 1][k]

\* A mutant of GStart: the offsets are laid out from the last partition to the
\* first (the cumulative sum runs over the reversed counts).
GStartDescending(N, T) ==
    [t \in 0..T |-> [k \in Tracers |->
        IF t = T THEN SumUpTo(N, k, T) ELSE SumUpTo(N, k, T) - SumUpTo(N, k, t + 1)]]

\* A mutant of GStart: the cumulative sum is stored from row 0, so that row t
\* includes the count of partition t.
GStartInclusive(N, T) ==
    [t \in 0..T |-> [k \in Tracers |-> SumUpTo(N, k, IF t < T THEN t + 1 ELSE T)]]

\* gstart[0, :] = 0; gstart[1:, k] = Nout[:, k, 0].cumsum()
GStart(N, T) == [t \in 0..T |-> [k \in Tracers |-> SumUpTo(N, k, t)]]

\* The length each np.empty call is given: N_lrg, N_elg, N_qso, and N_lrg for qso_mass.
AllocLen(k, f, Ntot) == IF k = 3 /\ f = "mass" THEN Ntot[1] ELSE Ntot[k]

EmptyCell == [val |-> Uninit, nw |-> 0, by |-> {}, src |-> {}]

Allocate(Ntot) ==
    [k \in Tracers |-> [f \in Fields |->
        [s \in 0..(AllocLen(k, f, Ntot) - 1) |-> EmptyCell]]]

\* A mutant of ClassifyDone: the sequential code does not wait for the join, it
\* runs as soon as one partition has finished its classify pass.
ClassifyDoneAny == \E tid \in Tids : ci[tid] = hstart[tid + 1]

\* The first prange loop has joined.
ClassifyDone == \A tid \in Tids : ci[tid] = hstart[tid + 1]

\* The sequential code between the two prange loops; it runs when the first
\* loop has joined.  The cursors j1, j2, j3 = gstart[tid] are taken here: gstart
\* does not change afterwards.
Offsets ==
    /\ phase = "classify"
    /\ ClassifyDone
    /\ gstart' = GStart(Nout, Nthread)
    /\ buf' = Allocate(gstart'[Nthread])
    /\ j' = [tid \in Tids |-> gstart'[tid]]
    /\ ci' = [tid \in Tids |-> hstart[tid]]
    /\ phase' = "fill"
    /\ UNCHANGED <<pop, H, Nthread, want, rsd, randoms, Nout, keep, oob, mk, orch, ld>>

\* ---------------------------------------------------------------- fill pass
\* Fast scalar mod; x >= L/2 and x < -L/2 are written without the division.
wrap(x, L) ==
    IF 2 * x >= L THEN x - L
    ELSE IF 2 * x < -L THEN x + L
    ELSE x

\* A mutant of GalVel: centrals take a separate deviate on each axis.
GalVelPerAxis(p, i, a, dec) ==
    IF p = "cent" THEN vel(i, a) + dec[0] * vdev(i + a)
    ELSE hvel(i, a) + dec[1] * (vel(i, a) - hvel(i, a))

\* The velocity written on axis a for object i.
GalVel(p, i, a, dec) ==
    IF p = "cent" THEN vel(i, a) + dec[0] * vdev(i)
    ELSE hvel(i, a) + dec[1] * (vel(i, a) - hvel(i, a))

\* What dict.get returns for a key the dictionary does not have.
None == -77777

Get(d, key) == IF key \in DOMAIN d THEN d[key] ELSE None

\* np.array(list(map(d.get, keys))), indexed from 0.
BuildArray(d, keys) == [n \in 0..(Len(keys) - 1) |-> Get(d, keys[n + 1])]

\* The keys gen_gals reads for alpha_c, alpha_s, s, s_v, s_p, s_r, Ac, As, Bc, Bs, ic.
DecorationKeys == <<"alpha_c", "alpha_c", "s", "s_v", "s_p", "s_r",
                    "Acent", "Asat", "Bcent", "Bsat", "ic">>

\* LRG_decorations_array as gen_gals builds it; gen_cent is passed alpha_c, the
\* value of element 0.
DecorationsOf(hod) == BuildArray(hod, DecorationKeys)

LRG_decorations_array == DecorationsOf(LRG_HOD)

\* The final content of field f of the galaxy made from object i, with the
\* decoration vector dec.
ValueWith(p, f, i, withRsd, dec) ==
    CASE f = "x"  -> pos(i, 0)
      [] f = "y"  -> pos(i, 1)
      [] f = "z"  -> IF withRsd
                     THEN wrap(pos(i, 2) + GalVel(p, i, 2, dec) * inv_velz2kms, lbox)
                     ELSE pos(i, 2)
      [] f = "vx" -> GalVel(p, i, 0, dec)
      [] f = "vy" -> GalVel(p, i, 1, dec)
      [] f = "vz" -> GalVel(p, i, 2, dec)
      [] f = "mass" -> mass(i)
      [] f = "id" -> ids(i)

Value(p, f, i, withRsd) == ValueWith(p, f, i, withRsd, LRG_decorations_array)

\* int64 -> float64 of a non-negative id below 2^54: exact below 2^53, rounded
\* to the nearest even integer, ties to the even significand, from 2^53 on.
AsFloat64(id) ==
    IF id.hi < 2 ^ 23 \/ id.lo % 2 = 0 THEN id
    ELSE LET lo2 == IF ((id.lo - 1) \div 2) % 2 = 0 THEN id.lo - 1 ELSE id.lo + 1
         IN  IF lo2 = IdBase THEN [hi |-> id.hi + 1, lo |-> 0] ELSE [hi |-> id.hi, lo |-> lo2]

\* The value returned for a stored value v of field f: id is returned as
\* lrg_id.astype(np.float64), the other fields as they are.
Stored(f, v) == IF f = "id" THEN AsFloat64(v) ELSE v

\* The number of assignments one iteration makes to field f of its slot.
NWrites(f, withRsd) == IF f = "z" /\ withRsd THEN 2 ELSE 1

\* A mutant of Advance: the cursor is not advanced.
AdvanceStuck(cur, kp) == cur

\* j1 += 1, j2 += 1 or j3 += 1
Advance(cur, kp) == [cur EXCEPT ![kp] = @ + 1]

\* One iteration of the second prange loop, by partition tid, with the
\* decoration vector dec.
FillWith(tid, dec) ==
    /\ phase = "fill"
    /\ ci[tid] < hstart[tid + 1]
    /\ LET i == ci[tid]
           kp == keep[i]
           s == j[tid][kp]
       IN  IF kp \in Tracers
           THEN /\ buf' = [buf EXCEPT ![kp] = [f \in Fields |->
                              IF s \in DOMAIN @[f]
                              THEN [@[f] EXCEPT ![s] =
                                       [val |-> ValueWith(pop, f, i, rsd, dec),
                                        nw |-> @.nw + NWrites(f, rsd),
                                        by |-> @.by \cup {tid},
                                        src |-> @.src \cup {i}]]
                              ELSE @[f]]]
                /\ oob' = oob \cup {<<tid, kp, f, s>> : f \in {g \in Fields : s \notin DOMAIN buf[kp][g]}}
                /\ j' = [j EXCEPT ![tid] = Advance(@, kp)]
           ELSE UNCHANGED <<buf, oob, j>>
    /\ ci' = [ci EXCEPT ![tid] = @ + 1]
    /\ UNCHANGED <<pop, H, Nthread, want, rsd, randoms, phase, Nout, keep, gstart, mk, orch, ld>>

FillStep(tid) == FillWith(tid, LRG_decorations_array)

FillDone == \A tid \in Tids : ci[tid] = hstart[tid + 1]

\* The second loop has joined: the three dictionaries are built and returned.
Return ==
    /\ phase = "fill"
    /\ FillDone
    /\ phase' = "done"
    /\ UNCHANGED <<pop, H, Nthread, want, rsd, randoms, ci, Nout, keep, gstart, j,
                   buf, oob, mk, orch, ld>>

\* ------------------------------------------------------------ specification
Wants == [L : BOOLEAN, E : BOOLEAN, Q : BOOLEAN]

NoMk == [r |-> 0, o |-> occ, w |-> [L |-> TRUE, E |-> TRUE, Q |-> TRUE], d |-> {}]

Init ==
    /\ pop \in {"cent", "sats"}
    /\ H \in 0..MaxH
    /\ Nthread \in 1..MaxThreads
    /\ want \in Wants
    /\ rsd \in BOOLEAN
    /\ randoms \in [0..(H - 1) -> Draws]
    /\ phase = "classify"
    /\ ci = [tid \in Tids |-> hstart[tid]]
    /\ Nout = [tid \in Tids |-> [k \in Tracers |-> 0]]
    /\ keep = [i \in 0..(H - 1) |-> Uninit]
    /\ gstart = <<>>
    /\ j = <<>>
    /\ buf = Allocate([k \in Tracers |-> 0])
    /\ oob = {}
    /\ mk = NoMk
    /\ orch = Idle
    /\ ld = Idle

Next ==
    \/ \E tid \in Tids : ClassifyStep(tid)
    \/ Offsets
    \/ \E tid \in Tids : FillStep(tid)
    \/ Return

Spec == Init /\ [][Next]_vars

\* --------------------------------------------- the passes, scheduled fairly
\* A store outside its array has been executed (the compiled loops check no
\* index): the process may be killed for it, now or at any later point.
Crash ==
    /\ phase = "fill"
    /\ oob # {}
    /\ phase' = "crashed"
    /\ UNCHANGED <<pop, H, Nthread, want, rsd, randoms, ci, Nout, keep, gstart, j,
                   buf, oob, mk, orch, ld>>

NextFair == Next \/ Crash

\* Every partition that can take a step of its loop takes one in the end, and
\* so does the calling thread between and after the loops.
Fairness ==
    /\ \A tid \in 0..(MaxThreads - 1) : WF_vars(tid \in Tids /\ ClassifyStep(tid))
    /\ WF_vars(Offsets)
    /\ \A tid \in 0..(MaxThreads - 1) : WF_vars(tid \in Tids /\ FillStep(tid))
    /\ WF_vars(Return)

SpecFair == Init /\ [][NextFair]_vars /\ Fairness

\* ------------------------------------------- the classify decision alone
\* The inputs of one object: its draw, the three occupation values, the flags.
InitMarker ==
    /\ pop \in {"cent", "sats"}
    /\ H = 1
    /\ Nthread = 1
    /\ want \in Wants
    /\ rsd = FALSE
    /\ randoms = [i \in 0..0 |-> 0]
    /\ phase = "marker"
    /\ ci = [tid \in 0..0 |-> 0]
    /\ Nout = [tid \in 0..0 |-> [k \in Tracers |-> 0]]
    /\ keep = [i \in 0..0 |-> Uninit]
    /\ gstart = <<>>
    /\ j = <<>>
    /\ buf = Allocate([k \in Tracers |-> 0])
    /\ oob = {}
    /\ mk \in [r : 0..9, o : [L : 0..MaxP, E : 0..MaxP, Q : 0..MaxP], w : {want}, d : {{}}]
    /\ orch = Idle
    /\ ld = Idle

\* The body of the classify loop applied to the object mk.
MarkerStep ==
    /\ phase = "marker"
    /\ LET m == Markers(pop, 0, mk.w, mk.o, LRG_HOD.ic)
       IN  mk' = [mk EXCEPT !.d = {[m |-> m, c |-> Decide(mk.r, m)]}]
    /\ phase' = "marked"
    /\ UNCHANGED <<pop, H, Nthread, want, rsd, randoms, ci, Nout, keep, gstart, j,
                   buf, oob, orch, ld>>

NextMarker == MarkerStep

SpecMarker == InitMarker /\ [][NextMarker]_vars

\* ------------------------------------- the classify body on any float input
\* The values an occupation function can return: n_cen_LRG and N_cen_QSO are
\* in [0, pmax]; N_cen_ELG_v1 is negative where pmax < 1/Q; N_sat_generic and
\* n_sat_LRG_modified are negative or NaN where M_h < kappa * M_cut.
OccF == {NaN, -2, 0, 6}

DecCases == {NoRanks, [s |-> 2, s_v |-> 0, s_p |-> 0, s_r |-> 0],
             [s |-> 1, s_v |-> 1, s_p |-> 1, s_r |-> 1]}

RankCases == {MeanRank, [r |-> -1, v |-> -1, p |-> 0, rr |-> 0]}

OccInputs(p, w) ==
    [r : Draws, o : [L : OccF, E : OccF, Q : OccF], w : {w}, ic : 1..2, wt : 1..2,
     enable_ranks : IF p = "cent" THEN {FALSE} ELSE BOOLEAN,
     dec : IF p = "cent" THEN {NoRanks} ELSE DecCases,
     ranks : IF p = "cent" THEN {MeanRank} ELSE RankCases,
     nanle : BOOLEAN, d : {{}}]

InitOcc ==
    /\ pop \in {"cent", "sats"}
    /\ H = 1
    /\ Nthread = 1
    /\ want \in Wants
    /\ rsd = FALSE
    /\ randoms = [i \in 0..0 |-> 0]
    /\ phase = "occ"
    /\ ci = [tid \in 0..0 |-> 0]
    /\ Nout = [tid \in 0..0 |-> [k \in Tracers |-> 0]]
    /\ keep = [i \in 0..0 |-> Uninit]
    /\ gstart = <<>>
    /\ j = <<>>
    /\ buf = Allocate([k \in Tracers |-> 0])
    /\ oob = {}
    /\ mk \in OccInputs(pop, want)
    /\ orch = Idle
    /\ ld = Idle

\* The body of the classify loop applied to the object mk.
OccStep ==
    /\ phase = "occ"
    /\ LET m == IF pop = "cent" THEN MarkersCentF(mk) ELSE MarkersSatsF(mk)
       IN  mk' = [mk EXCEPT !.d = {[m |-> m, c |-> DecideF(mk.r, m, mk.nanle)]}]
    /\ phase' = "classified"
    /\ UNCHANGED engineVars
    /\ UNCHANGED <<orch, ld>>

NextOcc == OccStep

SpecOcc == InitOcc /\ [][NextOcc]_vars

\* --------------------------------------------------------- wrap, by itself
MaxX == 50

MaxL == 32

InitWrap ==
    /\ pop = "cent"
    /\ H = 1
    /\ Nthread = 1
    /\ want = [L |-> TRUE, E |-> FALSE, Q |-> FALSE]
    /\ rsd = TRUE
    /\ randoms = [i \in 0..0 |-> 0]
    /\ phase = "wrap"
    /\ ci = [tid \in 0..0 |-> 0]
    /\ Nout = [tid \in 0..0 |-> [k \in Tracers |-> 0]]
    /\ keep = [i \in 0..0 |-> Uninit]
    /\ gstart = <<>>
    /\ j = <<>>
    /\ buf = Allocate([k \in Tracers |-> 0])
    /\ oob = {}
    /\ mk \in [x : (-MaxX)..MaxX, L : 1..MaxL, w : {Uninit}]
    /\ orch = Idle
    /\ ld = Idle

\* w = wrap(x, L)
WrapStep ==
    /\ phase = "wrap"
    /\ mk' = [mk EXCEPT !.w = wrap(mk.x, mk.L)]
    /\ phase' = "wrapped"
    /\ UNCHANGED engineVars
    /\ UNCHANGED <<orch, ld>>

NextWrap == WrapStep

SpecWrap == InitWrap /\ [][NextWrap]_vars

\* ------------------------------- the fill pass on one kept object, any HOD
MaxAlpha == 2

\* LRG_HOD with every pair of velocity bias parameters.
HodCases == {[LRG_HOD EXCEPT !.alpha_c = a, !.alpha_s = b] : a, b \in 0..MaxAlpha}

\* The state after the first loop and the allocation when object i alone was
\* kept, as tracer kp.
InitGalaxy ==
    /\ pop \in {"cent", "sats"}
    /\ H = MaxH
    /\ Nthread = 1
    /\ want = [L |-> TRUE, E |-> TRUE, Q |-> TRUE]
    /\ rsd \in BOOLEAN
    /\ randoms = [i \in 0..(H - 1) |-> 0]
    /\ phase = "fill"
    /\ ci = [tid \in 0..0 |-> 0]
    /\ \E i \in 0..(H - 1) : \E kp \in Tracers :
          /\ keep = [x \in 0..(H - 1) |-> IF x = i THEN kp ELSE 0]
          /\ Nout = [tid \in 0..0 |-> [k \in Tracers |-> IF k = kp THEN 1 ELSE 0]]
    /\ gstart = GStart(Nout, Nthread)
    /\ j = [tid \in 0..0 |-> gstart[tid]]
    /\ buf = Allocate(gstart[Nthread])
    /\ oob = {}
    /\ mk \in [hod : HodCases]
    /\ orch = Idle
    /\ ld = Idle

\* One iteration of the second loop with the vector gen_gals builds from mk.hod.
EmitStep ==
    /\ FillWith(0, DecorationsOf(mk.hod))

NextGalaxy == EmitStep \/ Return

SpecGalaxy == InitGalaxy /\ [][NextGalaxy]_vars

\* ------------------------------------------ gen_gal_cat and gen_gals
\* The keys gen_gals reads for each design vector, in the order it stores them.
LRGDesignKeys == <<"logM_cut", "logM1", "sigma", "alpha", "kappa">>

\* A mutant of ELGDesignKeys: kappa and sigma are stored in each other's place.
ELGDesignKeysSwapped ==
    <<"p_max", "Q", "logM_cut", "sigma", "kappa", "logM1", "alpha", "gamma", "A_s">>

ELGDesignKeys ==
    <<"p_max", "Q", "logM_cut", "kappa", "sigma", "logM1", "alpha", "gamma", "A_s">>

QSODesignKeys == <<"p_max", "logM_cut", "kappa", "sigma", "logM1", "alpha", "A_s">>

KeysIn(keys) == {keys[n] : n \in DOMAIN keys}

MaxV == 1

\* A dictionary on the given keys whose values differ from key to key.
DictOn(keyseq, b) ==
    [k \in KeysIn(keyseq) |-> b + 10 * (CHOOSE n \in DOMAIN keyseq : keyseq[n] = k)]

AllLRGKeys == LRGDesignKeys \o <<"alpha_c", "alpha_s", "s", "s_v", "s_p", "s_r",
                                 "Acent", "Asat", "Bcent", "Bsat", "ic">>

Without(d, key) == [k \in DOMAIN d \ {key} |-> d[k]]

\* The three dictionaries of a call: complete, or with one key missing.
HodInputs ==
    LET full == {[LRG |-> DictOn(AllLRGKeys, b), ELG |-> DictOn(ELGDesignKeys, b),
                  QSO |-> DictOn(QSODesignKeys, b)] : b \in 0..MaxV}
    IN  full
        \cup {[h EXCEPT !.LRG = Without(@, k)] : h \in full, k \in KeysIn(AllLRGKeys)}
        \cup {[h EXCEPT !.ELG = Without(@, k)] : h \in full, k \in KeysIn(ELGDesignKeys)}
        \cup {[h EXCEPT !.QSO = Without(@, k)] : h \in full, k \in KeysIn(QSODesignKeys)}

\* The parameters gen_cent and gen_sats take from the design vectors, under
\* the name of the dictionary key each local variable stands for.
ParseLRGDesign(a) ==
    [logM_cut |-> a[0], logM1 |-> a[1], sigma |-> a[2], alpha |-> a[3], kappa |-> a[4]]

ParseELGDesign(a) ==
    [p_max |-> a[0], Q |-> a[1], logM_cut |-> a[2], kappa |-> a[3], sigma |-> a[4],
     logM1 |-> a[5], alpha |-> a[6], gamma |-> a[7], A_s |-> a[8]]

ParseQSODesign(a) ==
    [p_max |-> a[0], logM_cut |-> a[1], kappa |-> a[2], sigma |-> a[3],
     logM1 |-> a[4], alpha |-> a[5], A_s |-> a[6]]

\* alpha_s, s, s_v, s_p, s_r, Ac, As, Bc, Bs, ic of gen_sats.
ParseDecorations(a) ==
    [alpha_s |-> a[1], s |-> a[2], s_v |-> a[3], s_p |-> a[4], s_r |-> a[5],
     Acent |-> a[6], Asat |-> a[7], Bcent |-> a[8], Bsat |-> a[9], ic |-> a[10]]

HasNone(a) == \E n \in DOMAIN a : a[n] = None

\* The columns of a table file.
Columns == <<"x_gal", "y_gal", "z_gal", "vx_gal", "vy_gal", "vz_gal", "mass_halo", "id_halo">>

InitOrch ==
    /\ pop = "cent"
    /\ H = 1
    /\ Nthread = 1
    /\ want \in Wants
    /\ rsd \in BOOLEAN
    /\ randoms = [i \in 0..0 |-> 0]
    /\ phase = "orch"
    /\ ci = [tid \in 0..0 |-> 0]
    /\ Nout = [tid \in 0..0 |-> [k \in Tracers |-> 0]]
    /\ keep = [i \in 0..0 |-> Uninit]
    /\ gstart = <<>>
    /\ j = <<>>
    /\ buf = Allocate([k \in Tracers |-> 0])
    /\ oob = {}
    /\ mk = NoMk
    /\ \E h \in HodInputs : \E prsd, wtd \in BOOLEAN :
          orch = [pc |-> "gen_gals", hod |-> h, params_rsd |-> prsd, write_to_disk |-> wtd,
                  vec |-> <<>>, cent |-> {}, sats |-> {}, ran |-> {}, err |-> "",
                  files |-> {}]
    /\ ld = Idle

\* gen_gals up to the call of gen_cent: the four vectors and the scalars.
BuildVectors ==
    /\ orch.pc = "gen_gals"
    /\ orch' = [orch EXCEPT
          !.pc = "built",
          !.vec = [LRG_design_array |-> BuildArray(orch.hod.LRG, LRGDesignKeys),
                   LRG_decorations_array |-> DecorationsOf(orch.hod.LRG),
                   ELG_design_array |-> BuildArray(orch.hod.ELG, ELGDesignKeys),
                   QSO_design_array |-> BuildArray(orch.hod.QSO, QSODesignKeys)]]
    /\ UNCHANGED engineVars
    /\ UNCHANGED <<phase, mk, ld>>

\* The call of gen_cent.  A vector holding None is an array of objects and a
\* None scalar has no arithmetic: the compiled kernel rejects the call with a
\* TypingError before its body runs.
CallGenCent ==
    /\ orch.pc = "built"
    /\ LET v == orch.vec
           ic == v.LRG_decorations_array[10]
           alpha_c == v.LRG_decorations_array[0]
           Ac == v.LRG_decorations_array[6]
           Bc == v.LRG_decorations_array[8]
       IN  IF \/ HasNone(v.LRG_design_array) \/ HasNone(v.ELG_design_array)
              \/ HasNone(v.QSO_design_array) \/ None \in {ic, alpha_c, Ac, Bc}
           THEN orch' = [orch EXCEPT !.pc = "error", !.err = "TypingError"]
           ELSE orch' = [orch EXCEPT
                    !.pc = "cent_done",
                    !.ran = @ \cup {"gen_cent"},
                    !.cent = {[LRG |-> ParseLRGDesign(v.LRG_design_array),
                               ELG |-> ParseELGDesign(v.ELG_design_array),
                               QSO |-> ParseQSODesign(v.QSO_design_array),
                               ic |-> ic, alpha_c |-> alpha_c, Acent |-> Ac, Bcent |-> Bc]}]
    /\ UNCHANGED engineVars
    /\ UNCHANGED <<phase, mk, ld>>

\* The call of gen_sats.
CallGenSats ==
    /\ orch.pc = "cent_done"
    /\ LET v == orch.vec
       IN  IF \/ HasNone(v.LRG_design_array) \/ HasNone(v.LRG_decorations_array)
              \/ HasNone(v.ELG_design_array) \/ HasNone(v.QSO_design_array)
           THEN orch' = [orch EXCEPT !.pc = "error", !.err = "TypingError"]
           ELSE orch' = [orch EXCEPT
                    !.pc = "generated",
                    !.ran = @ \cup {"gen_sats"},
                    !.sats = {[LRG |-> ParseLRGDesign(v.LRG_design_array),
                               ELG |-> ParseELGDesign(v.ELG_design_array),
                               QSO |-> ParseQSODesign(v.QSO_design_array),
                               dec |-> ParseDecorations(v.LRG_decorations_array)]}]
    /\ UNCHANGED engineVars
    /\ UNCHANGED <<phase, mk, ld>>

\* gen_gal_cat after gen_gals, write_to_disk true: the directory name and the
\* two ascii.write calls.
WriteToDisk ==
    /\ orch.pc = "generated"
    /\ orch.write_to_disk
    /\ LET rsd_string == IF orch.params_rsd THEN "_rsd" ELSE ""
           outdir == [alpha_s |-> Get(orch.hod.LRG, "alpha_s"), rsd_string |-> rsd_string]
       IN  orch' = [orch EXCEPT
              !.pc = "returned",
              !.files = {[dir |-> outdir, name |-> "gals_cent.dat", tracer |-> 1,
                          population |-> "cent", columns |-> Columns],
                         [dir |-> outdir, name |-> "gals_sat.dat", tracer |-> 1,
                          population |-> "sats", columns |-> Columns]}]
    /\ UNCHANGED engineVars
    /\ UNCHANGED <<phase, mk, ld>>

\* gen_gal_cat after gen_gals, write_to_disk false.
ReturnDicts ==
    /\ orch.pc = "generated"
    /\ ~orch.write_to_disk
    /\ orch' = [orch EXCEPT !.pc = "returned"]
    /\ UNCHANGED engineVars
    /\ UNCHANGED <<phase, mk, ld>>

NextOrch == BuildVectors \/ CallGenCent \/ CallGenSats \/ WriteToDisk \/ ReturnDicts

SpecOrch == InitOrch /\ [][NextOrch]_vars

\* ------------------------------------------------------------ load_sims.py
MaxChunks == 2

MaxWorkers == 2

newseed == 600

\* The halo catalogue of chunk i: NHalos halos, halo h with npoutA particles
\* starting at npstartA, and its subsampling probabilities in tenths.
NHalos == 3
npoutA(i, h) == 1 + ((i + h) % 2)
RECURSIVE npstartA(_, _)
npstartA(i, h) == IF h = 0 THEN 0 ELSE npstartA(i, h - 1) + npoutA(i, h - 1)
NParts(i) == npstartA(i, NHalos)
p_halos(i, h) == 5 + 4 * ((i + h) % 2)
subsample_factor(i, h) == 5

\* The state of numpy's global generator after seeding with sd: the seed, the
\* number of uniforms drawn since, and the Gaussian kept for the next normal
\* draw.
Fresh(sd) == [seed |-> sd, n |-> 0, has_gauss |-> FALSE, gauss |-> 0]

\* A mutant of Seed: load_chunk goes on with the generator as it finds it.
SeedKept(i, st) == st

\* np.random.seed(newseed + i) on the generator st
Seed(i, st) == Fresh(newseed + i)

\* The k-th uniform after seeding with sd, in tenths.
U(sd, k) == (((sd % 9) + 1) * (k + 1) + 4 * k * k) % 10

\* np.random.random(c): the values, and the generator afterwards.
Uniforms(st, c) == [v |-> [k \in 1..c |-> U(st.seed, st.n + k - 1)],
                    st |-> [st EXCEPT !.n = @ + c]]

RECURSIVE Normals(_, _)
\* np.random.normal(size = c): Gaussians are made two at a time from two
\* uniforms, the second is kept in the generator for the next draw.
Normals(st, c) ==
    IF c = 0 THEN [v |-> <<>>, st |-> st]
    ELSE LET r == Normals(st, c - 1)
             t == r.st
         IN  IF t.has_gauss
             THEN [v |-> Append(r.v, t.gauss), st |-> [t EXCEPT !.has_gauss = FALSE]]
             ELSE [v |-> Append(r.v, U(t.seed, t.n) - U(t.seed, t.n + 1)),
                   st |-> [t EXCEPT !.n = @ + 2, !.has_gauss = TRUE,
                                    !.gauss = U(t.seed, t.n) + U(t.seed, t.n + 1)]]

RECURSIVE SumSeq(_)
SumSeq(q) == IF q = <<>> THEN 0 ELSE q[1] + SumSeq(Tail(q))

\* A mutant of NextTracker: the tracker advances by the halo's particles, kept
\* or not.
NextTrackerAll(start_tracker, submask) == start_tracker + Len(submask)

\* start_tracker += np.sum(submask)
NextTracker(start_tracker, submask) == start_tracker + SumSeq(submask)

RECURSIVE SubsampleLoop(_, _, _, _)
\* The loop over the halos j = 0..n-1 of chunk i: the generator, start_tracker,
\* halos_pstart_new, halos_pnum_new and mask_parts after it.
SubsampleLoop(i, mask_halos, st0, n) ==
    IF n = 0 THEN [st |-> st0, start_tracker |-> 0, pstart |-> <<>>, pnum |-> <<>>,
                   mask_parts |-> [q \in 0..(NParts(i) - 1) |-> 0]]
    ELSE LET r == SubsampleLoop(i, mask_halos, st0, n - 1)
             jj == n - 1
         IN  IF mask_halos[jj + 1]
             THEN LET d == Uniforms(r.st, npoutA(i, jj))
                      submask == [k \in 1..npoutA(i, jj) |->
                                     IF d.v[k] < subsample_factor(i, jj) THEN 1 ELSE 0]
                  IN  [st |-> d.st,
                       start_tracker |-> NextTracker(r.start_tracker, submask),
                       pstart |-> Append(r.pstart, r.start_tracker),
                       pnum |-> Append(r.pnum, SumSeq(submask)),
                       mask_parts |-> [q \in 0..(NParts(i) - 1) |->
                           IF q >= npstartA(i, jj) /\ q < npstartA(i, jj) + npoutA(i, jj)
                           THEN submask[q - npstartA(i, jj) + 1] ELSE r.mask_parts[q]]]
             ELSE [r EXCEPT !.pstart = Append(@, -1), !.pnum = Append(@, -1)]

\* load_chunk(i) from the halo mask to the halo file, from generator state st.
HaloStage(i, st) ==
    LET m == Uniforms(st, NHalos)
        mask_halos == [h \in 1..NHalos |-> m.v[h] < p_halos(i, h - 1)]
        lp == SubsampleLoop(i, mask_halos, m.st, NHalos)
        rd == Uniforms(lp.st, NHalos)
        gs == Normals(rd.st, NHalos)
    IN  [file |-> [mask_subsample |-> mask_halos, npstartA |-> lp.pstart,
                   npoutA |-> lp.pnum, randoms |-> rd.v, randoms_gaus_vrms |-> gs.v],
         mask_parts |-> lp.mask_parts,
         st |-> gs.st]

\* load_chunk(i) from the compaction of the particles to the particle file.
PartStage(i, mask_parts, st) ==
    LET kept == {q \in 0..(NParts(i) - 1) : mask_parts[q] = 1}
        rd == Uniforms(st, Cardinality(kept))
    IN  [file |-> [parts |-> kept, randoms |-> rd.v], st |-> rd.st]

Procs == 0..MaxWorkers

\* What load_chunk(i) writes when its generator was seeded on entry.
ExpectedHalos(i) == HaloStage(i, Fresh(newseed + i)).file

ExpectedParts(i) ==
    LET h == HaloStage(i, Fresh(newseed + i))
    IN  PartStage(i, h.mask_parts, h.st).file

Old == [old |-> TRUE]

Absent == [absent |-> TRUE]

InitLoad ==
    /\ pop = "cent"
    /\ H = 1
    /\ Nthread = 1
    /\ want = [L |-> TRUE, E |-> FALSE, Q |-> FALSE]
    /\ rsd = FALSE
    /\ randoms = [i \in 0..0 |-> 0]
    /\ phase = "load"
    /\ ci = [tid \in 0..0 |-> 0]
    /\ Nout = [tid \in 0..0 |-> [k \in Tracers |-> 0]]
    /\ keep = [i \in 0..0 |-> Uninit]
    /\ gstart = <<>>
    /\ j = <<>>
    /\ buf = Allocate([k \in Tracers |-> 0])
    /\ oob = {}
    /\ mk = NoMk
    /\ orch = Idle
    /\ \E numchunks \in 1..MaxChunks : \E entropy \in {0, 1} :
       \E fh, fp \in [0..(numchunks - 1) -> {Old, Absent}] :
          ld = [pc |-> "loop", numchunks |-> numchunks, next |-> 0,
                halos |-> fh, particles |-> fp,
                rng |-> [p \in Procs |-> Fresh(entropy)],
                at |-> [p \in Procs |-> "idle"], chunk |-> [p \in Procs |-> 0],
                mask_parts |-> [p \in Procs |-> <<>>],
                claimed |-> {}, writes |-> {},
                nwrites |-> [c \in 0..(numchunks - 1) |-> [halos |-> 0, particles |-> 0]]]

\* os.path.exists(outfilename_halos) and os.path.exists(outfilename_particles)
BothExist(i) == ld.halos[i] # Absent /\ ld.particles[i] # Absent

\* A mutant of Skip: load_chunk never returns early.
SkipNever(i) == FALSE

\* load_chunk(i) returns 0 before it reads anything.
Skip(i) == BothExist(i)

\* Process p may take the next chunk: the main process 0 in the loop, a worker
\* of the pool afterwards.
MayTake(p, i) ==
    /\ ld.at[p] = "idle"
    /\ \/ ld.pc = "loop" /\ p = 0 /\ i = ld.next /\ i < ld.numchunks
       \/ ld.pc = "pool" /\ p # 0 /\ i \in 0..(ld.numchunks - 1) \ ld.claimed

\* load_chunk(i) in process p, from entry to the test of the two files.
LoadEnter(p, i) ==
    /\ MayTake(p, i)
    /\ ld' = [ld EXCEPT
              !.rng[p] = Seed(i, @),
              !.chunk[p] = i,
              !.at[p] = IF Skip(i) THEN "idle" ELSE "halos",
              !.next = IF p = 0 THEN @ + 1 ELSE @,
              !.claimed = IF p = 0 THEN @ ELSE @ \cup {i}]
    /\ UNCHANGED engineVars
    /\ UNCHANGED <<phase, mk, orch>>

\* load_chunk(i) in process p, up to the halo file.
LoadHalos(p) ==
    /\ ld.at[p] = "halos"
    /\ LET i == ld.chunk[p]
           r == HaloStage(i, ld.rng[p])
       IN  ld' = [ld EXCEPT
              !.rng[p] = r.st,
              !.mask_parts[p] = r.mask_parts,
              !.halos[i] = r.file,
              !.writes = @ \cup {[kind |-> "halos", chunk |-> i, proc |-> p, file |-> r.file]},
              !.nwrites[i].halos = @ + 1,
              !.at[p] = "particles"]
    /\ UNCHANGED engineVars
    /\ UNCHANGED <<phase, mk, orch>>

\* load_chunk(i) in process p, up to the particle file and the return.
LoadParticles(p) ==
    /\ ld.at[p] = "particles"
    /\ LET i == ld.chunk[p]
           r == PartStage(i, ld.mask_parts[p], ld.rng[p])
       IN  ld' = [ld EXCEPT
              !.rng[p] = r.st,
              !.particles[i] = r.file,
              !.writes = @ \cup {[kind |-> "particles", chunk |-> i, proc |-> p, file |-> r.file]},
              !.nwrites[i].particles = @ + 1,
              !.at[p] = "idle"]
    /\ UNCHANGED engineVars
    /\ UNCHANGED <<phase, mk, orch>>

\* The loop is over: the pool is made, its workers start from a copy of the
\* main process.
StartPool ==
    /\ ld.pc = "loop"
    /\ ld.next = ld.numchunks
    /\ ld.at[0] = "idle"
    /\ ld' = [ld EXCEPT !.pc = "pool", !.rng = [p \in Procs |-> ld.rng[0]]]
    /\ UNCHANGED engineVars
    /\ UNCHANGED <<phase, mk, orch>>

\* p.close(); p.join()
JoinPool ==
    /\ ld.pc = "pool"
    /\ ld.claimed = 0..(ld.numchunks - 1)
    /\ \A p \in Procs : ld.at[p] = "idle"
    /\ ld' = [ld EXCEPT !.pc = "done"]
    /\ UNCHANGED engineVars
    /\ UNCHANGED <<phase, mk, orch>>

NextLoad ==
    \/ \E p \in Procs : \E i \in 0..(MaxChunks - 1) : LoadEnter(p, i)
    \/ \E p \in Procs : LoadHalos(p)
    \/ \E p \in Procs : LoadParticles(p)
    \/ StartPool
    \/ JoinPool

SpecLoad == InitLoad /\ [][NextLoad]_vars

\* ------------------------------------------- load_chunk on one chunk alone
MaxIndex == 36

InitSub ==
    /\ pop = "cent"
    /\ H = 1
    /\ Nthread = 1
    /\ want = [L |-> TRUE, E |-> FALSE, Q |-> FALSE]
    /\ rsd = FALSE
    /\ randoms = [i \in 0..0 |-> 0]
    /\ phase = "sub"
    /\ ci = [tid \in 0..0 |-> 0]
    /\ Nout = [tid \in 0..0 |-> [k \in Tracers |-> 0]]
    /\ keep = [i \in 0..0 |-> Uninit]
    /\ gstart = <<>>
    /\ j = <<>>
    /\ buf = Allocate([k \in Tracers |-> 0])
    /\ oob = {}
    /\ mk = NoMk
    /\ orch = Idle
    /\ \E i \in 0..(MaxIndex - 1) : \E entropy \in {0, 1} :
          ld = [pc |-> "seeded", chunk |-> i, rng |-> Seed(i, Fresh(entropy)),
                halos |-> Absent, particles |-> Absent, mask_parts |-> <<>>]

\* load_chunk(i) with no file on disk, up to the halo file.
SubHalos ==
    /\ phase = "sub"
    /\ ld.pc = "seeded"
    /\ LET r == HaloStage(ld.chunk, ld.rng)
       IN  ld' = [ld EXCEPT !.pc = "halos", !.rng = r.st, !.halos = r.file,
                            !.mask_parts = r.mask_parts]
    /\ UNCHANGED engineVars
    /\ UNCHANGED <<phase, mk, orch>>

\* load_chunk(i) from there to the particle file.
SubParticles ==
    /\ phase = "sub"
    /\ ld.pc = "halos"
    /\ LET r == PartStage(ld.chunk, ld.mask_parts, ld.rng)
       IN  ld' = [ld EXCEPT !.pc = "written", !.rng = r.st, !.particles = r.file]
    /\ UNCHANGED engineVars
    /\ UNCHANGED <<phase, mk, orch>>

NextSub == SubHalos \/ SubParticles

SpecSub == InitSub /\ [][NextSub]_vars

\* ---------------------------------------------------------------- notions
Objects == 0..(H - 1)

\* The objects the classify pass kept.
Kept == {i \in Objects : keep[i] \in Tracers}

\* The tracer's total N_lrg, N_elg, N_qso.
Total(k) == gstart[Nthread][k]

\* The slots of tracer k's record set.
Slots(k) == 0..(Total(k) - 1)

\* Object i was written into slot s of tracer k.
Occupies(i, k, s) == \E f \in Fields : s \in DOMAIN buf[k][f] /\ i \in buf[k][f][s].src

PairsOf(i) == {p \in Tracers \X (0..H) : Occupies(i, p[1], p[2])}

RECURSIVE SumTids(_, _)
\* Nout[0][k] + ... + Nout[Nthread-1][k] over all k \in ks
SumTids(N, ks) == IF ks = {} THEN 0
                  ELSE LET k == CHOOSE x \in ks : TRUE
                       IN  SumUpTo(N, k, Nthread) + SumTids(N, ks \ {k})

\* ------------------------------------------------------------------ claims

C2_OneClassPerObject ==
    LET classified == {i \in Objects : keep[i] # Uninit}
    IN  phase \in {"classify", "fill", "done"} =>
        /\ \A i \in classified : keep[i] \in 0..3
        /\ \A k \in Tracers :
               SumUpTo(Nout, k, Nthread) = Cardinality({i \in classified : keep[i] = k})
        /\ SumTids(Nout, Tracers) + Cardinality({i \in classified : keep[i] = 0})
               = Cardinality(classified)
        /\ phase # "classify" => classified = Objects

\* C2 witness: the classify pass has joined with kept objects of two tracers and
\* an object that is not kept.
C2_Witness ==
    /\ phase = "fill"
    /\ \E i1, i2, i3 \in Objects :
           keep[i1] = 0 /\ keep[i2] \in Tracers /\ keep[i3] \in Tracers \ {keep[i2]}

\* C3: within a tracer the galaxies are in input order: of two kept objects of
\* one tracer, the one with the smaller input index is in the smaller slot.
C3_StableOrder ==
    phase = "done" =>
        \A i1, i2 \in Kept :
            (i1 < i2 /\ keep[i1] = keep[i2]) =>
                \A s1, s2 \in 0..H :
                    (Occupies(i1, keep[i1], s1) /\ Occupies(i2, keep[i2], s2)) => s1 < s2

\* C3 witness: two objects of one tracer classified by different partitions,
\* both written.
C3_Witness ==
    /\ phase = "done"
    /\ Nthread >= 2
    /\ \E i1, i2 \in Kept :
           /\ i1 < hstart[1] /\ i2 >= hstart[1]
           /\ keep[i1] = keep[i2]
           /\ \E s1, s2 \in 0..H : Occupies(i1, keep[i1], s1) /\ Occupies(i2, keep[i2], s2)

\* C4: hstart[0] = 0, hstart[Nthread] = H, hstart is non-decreasing, and every
\* index of 0..H-1 lies in exactly one range [hstart[t], hstart[t+1]); hence
\* the classify pass writes keep[i] for every i.
C4_PartitionCovers ==
    phase \in {"classify", "fill", "done"} =>
        /\ hstart[0] = 0
        /\ hstart[Nthread] = H
        /\ \A t \in Tids : hstart[t] <= hstart[t + 1]
        /\ \A i \in Objects :
               Cardinality({t \in Tids : hstart[t] <= i /\ i < hstart[t + 1]}) = 1
        /\ phase # "classify" => \A i \in Objects : keep[i] # Uninit

\* C4 witness: H not divisible by Nthread, with a half-way bound rounded to
\* even, and the classify pass joined.
C4_Witness ==
    /\ phase = "fill"
    /\ H = 3
    /\ Nthread = 2
    /\ hstart[1] = 2

\* C4 witness, second case: more partitions than objects, some range empty.
C4_WitnessEmptyRange ==
    /\ phase = "fill"
    /\ Nthread > H
    /\ H > 0
    /\ \E t \in Tids : hstart[t] = hstart[t + 1]

\* want_LRG, want_ELG, want_QSO by keep code
WantOf(k) == CASE k = 1 -> want.L [] k = 2 -> want.E [] k = 3 -> want.Q

\* The number of cells of buffer f of tracer k.
BufLen(k, f) == Cardinality(DOMAIN buf[k][f])

\* The returned array f of tracer k, as a sequence.
Returned(k, f) ==
    [s \in 1..BufLen(k, f) |->
        IF buf[k][f][s - 1].nw = 0 THEN Uninit ELSE Stored(f, buf[k][f][s - 1].val)]

RECURSIVE StableFilter(_, _, _)
\* The reference result: one sequential pass over objects 0..n-1 that appends
\* field f of every object of class k.
StableFilter(k, f, n) ==
    IF n = 0 THEN <<>>
    ELSE LET i == n - 1
             c == Decide(randoms[i], Markers(pop, i, want, occ, LRG_HOD.ic)).keep
         IN  IF c = k THEN Append(StableFilter(k, f, i), Stored(f, Value(pop, f, i, rsd)))
             ELSE StableFilter(k, f, i)

\* C5 (as claimed): the returned buffers equal the result of a sequential
\* single-pass stable filter over the input, for every Nthread and every
\* interleaving of the partitions.
C5_EqualsSequentialFilter ==
    phase = "done" =>
        \A k \in Tracers : \A f \in Fields : Returned(k, f) = StableFilter(k, f, H)

\* C6 (as claimed): all eight fields of a tracer are allocated with the same
\* length, the tracer's total kept count.
C6_EightEqualLengths ==
    phase \in {"fill", "done"} =>
        \A k \in Tracers : \A f \in Fields :
            /\ BufLen(k, f) = Total(k)
            /\ Total(k) = SumUpTo(Nout, k, Nthread)

\* C7 (as claimed): partition tid writes only slots of [gstart[tid],
\* gstart[tid+1]) of a tracer's buffers, no slot is written by two partitions,
\* and no write falls outside the buffer written.
C7_WritesInOwnRangeAndBounds ==
    phase \in {"fill", "done"} =>
        /\ oob = {}
        /\ \A k \in Tracers : \A f \in Fields : \A s \in DOMAIN buf[k][f] :
               /\ Cardinality(buf[k][f][s].by) <= 1
               /\ \A tid \in buf[k][f][s].by :
                      gstart[tid][k] <= s /\ s < gstart[tid + 1][k]
        /\ \A t1, t2 \in Tids : \A k \in Tracers :
               t1 < t2 => gstart[t1 + 1][k] <= gstart[t2][k]

\* C8 (as claimed): when the generator returns, every slot of every returned
\* buffer has been written exactly once, with RSD on or off.
C8_EverySlotWrittenOnce ==
    phase = "done" =>
        \A k \in Tracers : \A f \in Fields : \A s \in DOMAIN buf[k][f] :
            buf[k][f][s].nw = 1

\* C9 (as claimed): a tracer that is not requested gets no object, for every
\* draw including 0, and its returned buffers are empty.
C9_UnwantedTracerUnreachable ==
    phase \in {"classify", "fill", "done"} =>
        /\ \A i \in Kept : WantOf(keep[i])
        /\ phase = "done" =>
               \A k \in Tracers : ~WantOf(k) => \A f \in Fields : BufLen(k, f) = 0

\* C10: with cumulative thresholds t1, t2, t3 and the one draw r, the object is
\* LRG iff r <= t1, ELG iff t1 < r <= t2, QSO iff r exceeds t1 and t2 and
\* r <= t3, and none otherwise; t1 = 0.4, t2 = 0.9, r = 0.6 gives ELG.
C10_CompetitiveOnOneDraw ==
    phase = "marked" =>
        \A e \in mk.d :
            LET t == e.m
                c == e.c.keep
                r == mk.r
            IN  /\ c \in 0..3
                /\ c = 1 <=> r <= t[1]
                /\ c = 2 <=> (r > t[1] /\ r <= t[2])
                /\ c = 3 <=> (r > t[1] /\ r > t[2] /\ r <= t[3])
                /\ c = 0 <=> (r > t[1] /\ r > t[2] /\ r > t[3])
                /\ e.c.inc = (IF c = 0 THEN {} ELSE {c})
                /\ (t[1] = 4 /\ t[2] = 9 /\ r = 6) => c = 2

\* C10 witness: LRG marker 0.4, cumulative ELG marker 0.9, draw 0.6, classified ELG.
C10_Witness ==
    /\ phase = "marked"
    /\ mk.r = 6
    /\ \E e \in mk.d : e.m[1] = 4 /\ e.m[2] = 9 /\ e.c.keep = 2

\* The result of the classify body in SpecOcc.
OccResult == CHOOSE d \in mk.d : TRUE

\* C11: in gen_sats, a particle whose LRG expected satellite count is negative
\* or NaN is never kept as an LRG satellite, whatever its draw in [0, 1), and
\* is not kept at all when LRG is the only tracer requested.
C11_NegativeOrNaNNeverKept ==
    (phase = "classified" /\ pop = "sats" /\ mk.w.L
        /\ (ExpSat(mk) = NaN \/ ExpSat(mk) < 0))
    => /\ OccResult.c.keep # 1
       /\ (~mk.w.E /\ ~mk.w.Q) => OccResult.c.keep = 0

\* The part of C11 about negative counts alone.
C11_NegativeNeverKept ==
    (phase = "classified" /\ pop = "sats" /\ mk.w.L
        /\ ExpSat(mk) # NaN /\ ExpSat(mk) < 0)
    => /\ OccResult.c.keep # 1
       /\ (~mk.w.E /\ ~mk.w.Q) => OccResult.c.keep = 0

C11_NegativeWitness ==
    /\ phase = "classified" /\ pop = "sats" /\ mk.w.L /\ ~mk.w.E /\ ~mk.w.Q
    /\ mk.r = 0 /\ ExpSat(mk) # NaN /\ ExpSat(mk) < 0 /\ mk.o.L > 0
    /\ OccResult.c.keep = 0

\* C12: for every x and every L > 0, w = wrap(x, L) lies in [-L/2, L/2) and
\* differs from x by a multiple of L; wrap(L/2, L) = -L/2 and wrap(20, 32) = -12.
C12_WrapIntoBox ==
    phase = "wrapped"
    => /\ -mk.L <= 2 * mk.w /\ 2 * mk.w < mk.L
       /\ (mk.w - mk.x) % mk.L = 0
       /\ 2 * mk.x = mk.L => 2 * mk.w = -mk.L
       /\ (mk.x = 20 /\ mk.L = 32) => mk.w = -12

\* The part of C12 that holds: the same for x in [-3L/2, 3L/2).
C12_WrapIntoBoxNear ==
    (phase = "wrapped" /\ -3 * mk.L <= 2 * mk.x /\ 2 * mk.x < 3 * mk.L)
    => /\ -mk.L <= 2 * mk.w /\ 2 * mk.w < mk.L
       /\ (mk.w - mk.x) % mk.L = 0
       /\ 2 * mk.x = mk.L => 2 * mk.w = -mk.L
       /\ (mk.x = 20 /\ mk.L = 32) => mk.w = -12

C12_NearWitness == phase = "wrapped" /\ mk.x = 20 /\ mk.L = 32 /\ mk.w = -12

\* Field f of the galaxy returned in slot s of tracer k is v.
ReturnedIs(k, f, s, v) == s + 1 \in DOMAIN Returned(k, f) /\ Returned(k, f)[s + 1] = v

\* C13 (as claimed): every returned galaxy carries the x, y, mass and id of the
\* object it was made from, for every tracer, and its z when rsd is off; with
\* rsd on only the third-axis position is displaced.
C13_SourceRecordCarried ==
    phase = "done" =>
        \A i \in Kept : \A k \in Tracers : \A s \in 0..H :
            Occupies(i, k, s) =>
                /\ ReturnedIs(k, "x", s, pos(i, 0))
                /\ ReturnedIs(k, "y", s, pos(i, 1))
                /\ ReturnedIs(k, "mass", s, mass(i))
                /\ ReturnedIs(k, "id", s, ids(i))
                /\ ~rsd => ReturnedIs(k, "z", s, pos(i, 2))

\* What holds of the returned records: positions always, mass except in the
\* QSO set, id where the int64 id is below 2^53.
C13_CarriedWhereStored ==
    phase = "done" =>
        \A i \in Kept : \A k \in Tracers : \A s \in 0..H :
            Occupies(i, k, s) =>
                /\ ReturnedIs(k, "x", s, pos(i, 0))
                /\ ReturnedIs(k, "y", s, pos(i, 1))
                /\ k # 3 => ReturnedIs(k, "mass", s, mass(i))
                /\ ids(i).hi < 2 ^ 23 => ReturnedIs(k, "id", s, ids(i))
                /\ ~rsd => ReturnedIs(k, "z", s, pos(i, 2))
                /\ rsd => ReturnedIs(k, "z", s,
                              wrap(pos(i, 2) + Value(pop, "vz", i, rsd) * inv_velz2kms, lbox))

\* Refuted: the id is carried wherever the mass is (the id is rounded alone).
C13_OnlyIdRounded ==
    phase = "done" =>
        \A i \in Kept : \A k \in Tracers : \A s \in 0..H :
            (Occupies(i, k, s) /\ ReturnedIs(k, "mass", s, mass(i)))
                => ReturnedIs(k, "id", s, ids(i))

\* Refuted: the mass is carried wherever the id is (the mass is lost alone).
C13_OnlyMassLost ==
    phase = "done" =>
        \A i \in Kept : \A k \in Tracers : \A s \in 0..H :
            (Occupies(i, k, s) /\ ReturnedIs(k, "id", s, ids(i)))
                => ReturnedIs(k, "mass", s, mass(i))

\* The object kept in SpecGalaxy and its tracer.
TheKept == CHOOSE i \in Kept : TRUE

\* Field f of the one galaxy returned in SpecGalaxy is v.
GalaxyIs(f, v) == ReturnedIs(keep[TheKept], f, 0, v)

Axes == <<"vx", "vy", "vz">>

\* C14: a central's velocity is vel[i, k] + alpha_c * vdev[i] on every axis k,
\* with the one deviate vdev[i] on all three axes, for LRG, ELG and QSO alike;
\* with alpha_c = 0 it is the halo velocity.
C14_CentralVelocityBias ==
    (phase = "done" /\ pop = "cent" /\ mk \in [hod : HodCases]) =>
        \A a \in 0..2 :
            /\ GalaxyIs(Axes[a + 1], vel(TheKept, a) + mk.hod.alpha_c * vdev(TheKept))
            /\ mk.hod.alpha_c = 0 => GalaxyIs(Axes[a + 1], vel(TheKept, a))

C14_Witness ==
    /\ phase = "done" /\ pop = "cent" /\ mk \in [hod : HodCases]
    /\ keep[TheKept] = 3 /\ mk.hod.alpha_c = 2 /\ vdev(TheKept) # 0
    /\ \A a \in 0..2 : GalaxyIs(Axes[a + 1], vel(TheKept, a) + 2 * vdev(TheKept))

C14_WitnessNoBias ==
    /\ phase = "done" /\ pop = "cent" /\ mk \in [hod : HodCases]
    /\ mk.hod.alpha_c = 0 /\ vdev(TheKept) # 0
    /\ \A a \in 0..2 : GalaxyIs(Axes[a + 1], vel(TheKept, a))

\* C15 (as claimed): a satellite's velocity is hvel + alpha_s * (pvel - hvel)
\* on every axis, alpha_s being the value of the key 'alpha_s' of the LRG HOD
\* dictionary, carried at index 1 of the decoration vector.
C15_SatelliteVelocityBias ==
    (phase = "done" /\ pop = "sats" /\ mk \in [hod : HodCases]) =>
        /\ DecorationsOf(mk.hod)[1] = mk.hod.alpha_s
        /\ \A a \in 0..2 :
              GalaxyIs(Axes[a + 1], hvel(TheKept, a)
                          + mk.hod.alpha_s * (vel(TheKept, a) - hvel(TheKept, a)))

\* What holds instead: the velocity is biased by element 1 of the vector, which
\* is the value of the key 'alpha_c'.
C15_BiasedByAlphaC ==
    (phase = "done" /\ pop = "sats" /\ mk \in [hod : HodCases]) =>
        /\ DecorationsOf(mk.hod)[1] = mk.hod.alpha_c
        /\ \A a \in 0..2 :
              GalaxyIs(Axes[a + 1], hvel(TheKept, a)
                          + mk.hod.alpha_c * (vel(TheKept, a) - hvel(TheKept, a)))

\* The dictionaries of the call are complete.
Complete ==
    /\ DOMAIN orch.hod.LRG = KeysIn(AllLRGKeys)
    /\ DOMAIN orch.hod.ELG = KeysIn(ELGDesignKeys)
    /\ DOMAIN orch.hod.QSO = KeysIn(QSODesignKeys)

\* The design parameters a generator read are the dictionaries' values.
ReadsOwnKeys(g) ==
    /\ \A k \in KeysIn(LRGDesignKeys) : g.LRG[k] = orch.hod.LRG[k]
    /\ \A k \in KeysIn(ELGDesignKeys) : g.ELG[k] = orch.hod.ELG[k]
    /\ \A k \in KeysIn(QSODesignKeys) : g.QSO[k] = orch.hod.QSO[k]

\* C16: the LRG, ELG and QSO design vectors hold the named dictionary values
\* in the documented field order, and gen_cent and gen_sats read each named
\* parameter from the index at which gen_gals stored it.
C16_DesignVectorsRoundTrip ==
    /\ orch.pc \notin {"idle", "gen_gals"} =>
          /\ \A n \in 0..4 : orch.vec.LRG_design_array[n] = Get(orch.hod.LRG,
                 <<"logM_cut", "logM1", "sigma", "alpha", "kappa">>[n + 1])
          /\ \A n \in 0..8 : orch.vec.ELG_design_array[n] = Get(orch.hod.ELG,
                 <<"p_max", "Q", "logM_cut", "kappa", "sigma", "logM1", "alpha",
                   "gamma", "A_s">>[n + 1])
          /\ \A n \in 0..6 : orch.vec.QSO_design_array[n] = Get(orch.hod.QSO,
                 <<"p_max", "logM_cut", "kappa", "sigma", "logM1", "alpha", "A_s">>[n + 1])
    /\ \A g \in orch.cent \cup orch.sats : ReadsOwnKeys(g)

C16_Witness ==
    /\ orch.pc = "generated" /\ Complete
    /\ \E c \in orch.cent : \E g \in orch.sats :
          /\ c.ELG.kappa = orch.hod.ELG.kappa /\ c.ELG.kappa # c.ELG.sigma
          /\ g.QSO.A_s = orch.hod.QSO.A_s /\ g.LRG.kappa = orch.hod.LRG.kappa

\* C17 (as claimed): when a required key is missing from a HOD dictionary the
\* call fails with a configuration error before gen_cent or gen_sats is
\* invoked: no generator runs, and the call does not return.
C17_MalformedFailsFast ==
    (orch.pc # "idle" /\ ~Complete) =>
        /\ orch.ran = {}
        /\ orch.pc # "returned"
        /\ orch.pc = "error" => orch.err = "ConfigurationError"

\* What holds: a call with a missing key never fails before gen_cent is
\* called, and fails, if at all, with the kernel's TypingError.
C17_NoCheckBeforeGenerators ==
    /\ orch.pc = "error" => (orch.err = "TypingError" /\ ~Complete)
    /\ (orch.pc = "returned" /\ ~Complete) => "alpha_s" \notin DOMAIN orch.hod.LRG

\* C18 (as claimed): with write_to_disk true, exactly one table file is
\* written per (tracer, population) pair, each with eight columns.
C18_OneFilePerTracerAndPopulation ==
    (orch.pc = "returned" /\ orch.write_to_disk) =>
        \A k \in Tracers : \A p \in {"cent", "sats"} :
            /\ \E f \in orch.files : f.tracer = k /\ f.population = p
            /\ \A f, g \in orch.files :
                  (f.tracer = k /\ g.tracer = k /\ f.population = p /\ g.population = p)
                      => f = g
            /\ \A f \in orch.files : Len(f.columns) = 8

\* What holds: the two LRG files, eight columns each, and no other file.
C18_LRGFilesOnly ==
    /\ (orch.pc = "returned" /\ orch.write_to_disk) =>
          /\ {<<f.tracer, f.population>> : f \in orch.files} = {<<1, "cent">>, <<1, "sats">>}
          /\ Cardinality(orch.files) = 2
          /\ \A f \in orch.files : Len(f.columns) = 8
    /\ (orch.pc # "idle" /\ ~(orch.pc = "returned" /\ orch.write_to_disk)) => orch.files = {}

\* C19: the halo file and the particle file load_chunk(i) writes depend on
\* the chunk index alone, not on the process that runs it nor on the chunks
\* that process handled before: the generator is seeded with newseed + i on
\* entry.
C19_ChunkDeterministic ==
    ld.pc # "idle" =>
        \A w \in ld.writes :
            w.file = IF w.kind = "halos" THEN ExpectedHalos(w.chunk) ELSE ExpectedParts(w.chunk)

\* The particle file of chunk 1 written by a process whose generator had been
\* used for chunk 0.
C19_Witness ==
    /\ ld.pc # "idle"
    /\ \E w0, w1 \in ld.writes :
          /\ w0.kind = "particles" /\ w0.chunk = 0
          /\ w1.kind = "particles" /\ w1.chunk = 1 /\ w1.proc = w0.proc
          /\ w1.file = ExpectedParts(1) /\ w1.file.parts # {}

\* a <= b between numbers.
NumLeq(a, b) == a # NaN /\ b # NaN /\ a <= b

\* C20 (as claimed): for every parameter setting and every object the three
\* thresholds are non-decreasing, LRG_marker <= ELG_marker <= QSO_marker.
C20_MarkersMonotone ==
    phase = "classified" =>
        /\ NumLeq(OccResult.m[1], OccResult.m[2])
        /\ NumLeq(OccResult.m[2], OccResult.m[3])

\* What holds: the thresholds are non-decreasing where the LRG count is a
\* number and the ELG and QSO occupation values are numbers not below zero.
C20_MonotoneIfNonNegative ==
    (phase = "classified" /\ (mk.w.L => NumLeq(mk.o.L, mk.o.L))
        /\ (mk.w.E => NumLeq(0, mk.o.E)) /\ (mk.w.Q => NumLeq(0, mk.o.Q)))
    => /\ NumLeq(OccResult.m[1], OccResult.m[2])
       /\ NumLeq(OccResult.m[2], OccResult.m[3])

C20_NonNegativeWitness ==
    /\ phase = "classified" /\ mk.w.L /\ mk.w.E /\ mk.w.Q
    /\ mk.o.L < 0 /\ mk.o.L # NaN /\ mk.o.E > 0 /\ mk.o.Q > 0
    /\ OccResult.m[1] < OccResult.m[2] /\ OccResult.m[2] < OccResult.m[3]

\* The objects of partition tid.
RangeOf(tid) == hstart[tid]..(hstart[tid + 1] - 1)

\* Every object is classified and every count is the count of its partition.
ClassifyFinal ==
    /\ \A i \in Objects : keep[i] \in 0..3
    /\ \A tid \in Tids : \A k \in Tracers :
          Nout[tid][k] = Cardinality({i \in RangeOf(tid) : keep[i] = k})

\* C21: the passes are separated by a barrier.  While any partition is in its
\* fill pass every object has been classified by its partition, the offsets
\* are the prefix sums of the final counts and the buffers are allocated; and
\* no step of the fill pass changes keep, the counts, the offsets or the
\* length of a buffer.
C21_BarrierBetweenPasses ==
    /\ [](phase = "fill" => (ClassifyFinal /\ gstart = GStart(Nout, Nthread)
                               /\ DOMAIN buf = Tracers
                               /\ \A tid \in Tids : j[tid] \in [Tracers -> 0..H]))
    /\ [][phase = "fill" =>
            /\ keep' = keep /\ Nout' = Nout /\ gstart' = gstart
            /\ \A k \in Tracers : \A f \in Fields : DOMAIN buf'[k][f] = DOMAIN buf[k][f]]_vars

\* One partition is in its fill pass and has written a galaxy, another has
\* objects and has not started.
C21_Witness ==
    /\ phase = "fill" /\ Nthread >= 2
    /\ \E s, t \in Tids :
          /\ ci[s] > hstart[s] /\ \E i \in hstart[s]..(ci[s] - 1) : keep[i] \in Tracers
          /\ ci[t] = hstart[t] /\ RangeOf(t) # {}
          /\ \E i \in RangeOf(t) : keep[i] \in Tracers

\* The number of objects of partitions 0..t-1 kept as tracer k.
KeptBefore(t, k) ==
    Cardinality({i \in UNION {RangeOf(s) : s \in 0..(t - 1)} : keep[i] = k})

\* C22: for each tracer, gstart[t] is the number of objects partitions 0..t-1
\* kept (0 for t = 0, the tracer's total for t = Nthread), and the cursor of a
\* partition that has finished its fill pass equals gstart[t + 1].
C22_PrefixSumsAndCursors ==
    phase \in {"fill", "done"} =>
        \A k \in Tracers :
            /\ gstart[0][k] = 0
            /\ \A t \in 0..Nthread : gstart[t][k] = KeptBefore(t, k)
            /\ gstart[Nthread][k] = Cardinality({i \in Objects : keep[i] = k})
            /\ \A tid \in Tids : ci[tid] = hstart[tid + 1] => j[tid][k] = gstart[tid + 1][k]

C22_Witness ==
    /\ phase = "done" /\ Nthread >= 2
    /\ \E k \in Tracers :
          /\ 0 < gstart[1][k] /\ gstart[1][k] < gstart[2][k]
          /\ j[0][k] = gstart[1][k] /\ j[1][k] = gstart[2][k]

\* gen_cent has classified an object whose occupation values are numbers.
CentNumbers ==
    /\ phase = "classified" /\ pop = "cent"
    /\ mk.o.L # NaN /\ mk.o.E # NaN /\ mk.o.Q # NaN

\* What tracer k adds to the cumulative threshold.
Contribution(k) == IF k = 1 THEN OccResult.m[1] ELSE OccResult.m[k] - OccResult.m[k - 1]

\* C23 (as claimed): in gen_cent the occupation value of every requested
\* tracer is multiplied by multis[i] and by ic before it is added to the
\* cumulative threshold.
C23_AllScaledByMultisAndIc ==
    CentNumbers =>
        /\ mk.w.L => Contribution(1) = mk.o.L * mk.wt * mk.ic
        /\ mk.w.E => Contribution(2) = mk.o.E * mk.wt * mk.ic
        /\ mk.w.Q => Contribution(3) = mk.o.Q * mk.wt * mk.ic

\* What holds: LRG is scaled by both, ELG by multis[i] alone, QSO by neither.
C23_ScalingAsCoded ==
    CentNumbers =>
        /\ mk.w.L => Contribution(1) = mk.o.L * mk.wt * mk.ic
        /\ mk.w.E => Contribution(2) = mk.o.E * mk.wt
        /\ mk.w.Q => Contribution(3) = mk.o.Q

C23_ScalingWitness ==
    /\ CentNumbers /\ mk.w.L /\ mk.w.E /\ mk.w.Q /\ mk.wt = 2 /\ mk.ic = 2
    /\ mk.o.L = 6 /\ mk.o.E = 6 /\ mk.o.Q = 6
    /\ OccResult.m = <<24, 36, 42>>

\* gen_gal_cat has written its files.
Written == orch.pc = "returned" /\ orch.write_to_disk /\ orch.files # {}

\* C24 (as claimed): the output directory name carries "_rsd" exactly when
\* the rsd argument handed to the generators is true.
C24_SuffixFollowsRsdArgument ==
    Written => \A f \in orch.files : (f.dir.rsd_string = "_rsd") <=> rsd

\* What holds: the suffix follows params['rsd'], whatever rsd the generators
\* were run with.
C24_SuffixFollowsParams ==
    Written => \A f \in orch.files : (f.dir.rsd_string = "_rsd") <=> orch.params_rsd

C24_MislabelledWitness ==
    /\ Written /\ rsd /\ ~orch.params_rsd
    /\ \A f \in orch.files : f.dir.rsd_string = ""

\* Some process is inside load_chunk(i), past the test of the two files.
Busy(i) == \E p \in Procs : ld.at[p] # "idle" /\ ld.chunk[p] = i

Chunks == 0..(ld.numchunks - 1)

\* C25: a call of load_chunk(i) that finds both files returns without
\* touching them; after the sequential loop every chunk has both files, so
\* the pool writes nothing; each file is written at most once in a run, and
\* by the main process only.
C25_NoRegeneration ==
    /\ [](phase = "load" =>
            /\ \A i \in Chunks : ld.nwrites[i].halos <= 1 /\ ld.nwrites[i].particles <= 1
            /\ \A w \in ld.writes : w.proc = 0
            /\ ld.pc \in {"pool", "done"} => \A i \in Chunks : BothExist(i)
            /\ \A s, t \in ld.writes :
                  (s.kind = t.kind /\ s.chunk = t.chunk) => s.proc = t.proc)
    /\ [][phase = "load" =>
            \A i \in Chunks :
               (BothExist(i) /\ ~Busy(i)) =>
                  /\ ld'.halos[i] = ld.halos[i]
                  /\ ld'.particles[i] = ld.particles[i]
                  /\ ld'.nwrites[i] = ld.nwrites[i]
                  /\ ~Busy(i)']_vars

\* A finished run of two chunks: one had both files and was left alone by
\* the loop and by the pool, the other was generated, once, by the loop.
C25_Witness ==
    /\ phase = "load" /\ ld.pc = "done" /\ ld.numchunks = 2
    /\ ld.claimed = {0, 1}
    /\ \E i, k \in Chunks :
          /\ ld.halos[i] = Old /\ ld.particles[i] = Old
          /\ ld.nwrites[i] = [halos |-> 0, particles |-> 0]
          /\ ld.nwrites[k] = [halos |-> 1, particles |-> 1]
          /\ ld.halos[k] = ExpectedHalos(k)

\* The halos of a chunk.
Halos == 0..(NHalos - 1)

\* The input particles of halo h of the chunk at hand.
InputRange(h) ==
    npstartA(ld.chunk, h)..(npstartA(ld.chunk, h) + npoutA(ld.chunk, h) - 1)

\* Where input particle q lands in parts[mask_parts.astype(bool)].
Compacted(q) == Cardinality({r \in ld.particles.parts : r < q})

\* The new range of halo h in the written halo file.
NewRange(h) ==
    ld.halos.npstartA[h + 1]..(ld.halos.npstartA[h + 1] + ld.halos.npoutA[h + 1] - 1)

KeptHalo(h) == ld.halos.mask_subsample[h + 1]

\* C26: in the two files load_chunk writes, the new ranges of the kept halos
\* follow one another in halo order from 0, are pairwise disjoint and cover
\* exactly the positions of the compacted particle array, the range of a
\* halo holds that halo's kept particles and no others, and an unkept halo
\* has npstartA = npoutA = -1 and none of its particles in the array.
C26_NewRangesTile ==
    (phase = "sub" /\ ld.pc = "written") =>
        LET P == Cardinality(ld.particles.parts)
            K == {h \in Halos : KeptHalo(h)}
        IN  /\ \A h \in K :
                  /\ ld.halos.npoutA[h + 1] >= 0
                  /\ ld.halos.npstartA[h + 1] =
                        SumSeq([k \in 1..h |-> IF KeptHalo(k - 1) THEN ld.halos.npoutA[k] ELSE 0])
                  /\ {Compacted(q) : q \in ld.particles.parts \cap InputRange(h)} = NewRange(h)
            /\ \A h, k \in K : h # k => NewRange(h) \cap NewRange(k) = {}
            /\ UNION {NewRange(h) : h \in K} = 0..(P - 1)
            /\ \A h \in Halos \ K :
                  /\ ld.halos.npstartA[h + 1] = -1
                  /\ ld.halos.npoutA[h + 1] = -1
                  /\ ld.particles.parts \cap InputRange(h) = {}

\* A kept halo that lost a particle, then an unkept halo, then a kept halo
\* whose range starts behind the first one's.
C26_Witness ==
    /\ phase = "sub" /\ ld.pc = "written"
    /\ KeptHalo(0) /\ ~KeptHalo(1) /\ KeptHalo(2)
    /\ ld.halos.npoutA[1] > 0 /\ ld.halos.npoutA[1] < npoutA(ld.chunk, 0)
    /\ ld.halos.npoutA[3] > 0
    /\ ld.halos.npstartA[3] = ld.halos.npoutA[1]
    /\ ld.halos.npstartA[3] < npstartA(ld.chunk, 2)

C27_ReturnsUnlessCrashed == <>(phase \in {"done", "crashed"})

C27_ReturnsIfInBounds == <>(phase = "done" \/ oob # {})

\* No partition waits on another: inside a pass, a partition with objects
\* left can take its next step whatever the others have done, and it goes
\* through its range one object at a time.
C27_NeverBlocked ==
    /\ [](\A tid \in Tids :
            /\ (phase = "classify" /\ ci[tid] < hstart[tid + 1]) => ENABLED ClassifyStep(tid)
            /\ (phase = "fill" /\ ci[tid] < hstart[tid + 1]) => ENABLED FillStep(tid)
            /\ ci[tid] \in hstart[tid]..hstart[tid + 1])
    /\ [][\A tid \in Tids : ci'[tid] \in {ci[tid], ci[tid] + 1, hstart[tid]}]_vars

\* A pass that ended without returning: a QSO was stored past the end of
\* qso_mass.
C27_CrashedWitness ==
    /\ phase = "crashed"
    /\ \E w \in oob : w[2] = 3 /\ w[3] = "mass"
    /\ FillDone

====
